---- MODULE Spec2Model ----
(***************************************************************************)
(* Model of pkg/operation/shootsecrets/secrets_manager.go: the             *)
(* SecretsManager, its constructor, WithExistingSecrets,                   *)
(* WithCertificateAuthorities, Generate and Deploy, and the helpers they   *)
(* call.  Generate runs without blocking and is one step.  Deploy blocks   *)
(* in the storage client's Create once per object it creates, so it is a   *)
(* sequence of steps: its entry, per round of the loop the step up to the  *)
(* call of Create and the step from the return of Create, and its return;  *)
(* the caller can cancel the context between any two of them, also while   *)
(* Create waits.  The collaborators that live in other packages (the       *)
(* resource data list, the infodata helpers, the cluster secret generation *)
(* loop, the storage client) are modelled from the specification text.     *)
(***************************************************************************)
EXTENDS Integers, Sequences, FiniteSets, TLC

VARIABLES
    secretConfigGenerator,     \* "nil" or the engine's provider function
    certificateAuthorities,    \* name -> certificate, the Certificate Authority Cache
    existingSecrets,           \* name -> secret, the Existing Runtime Object Cache
    GardenerResourceDataList,  \* sequence of records, the Encoded Record Store
    DeployedSecrets,           \* name -> secret, the Deployed Object Map
    cluster,                   \* names of the objects the storage client created
    strictClient,              \* TRUE: the client rejects a name it already holds
    pc,                        \* where the engine's goroutine is
    secretConfigs,             \* local of Generate and Deploy: the provider's list
    position,                  \* Deploy's loop: the configuration it works on
    deployedSecrets,           \* Deploy's loop: the objects resolved so far
    secretInterface,           \* Deploy's loop: the material of the object in creation
    ctx,                       \* the context of the Deploy call in progress
    ns,                        \* the namespace of the Deploy call in progress
    call,                      \* what the current or last call did and returned
    crashed,                   \* TRUE once a call has panicked
    inputs,                    \* whether the caches were replaced after a call
    prevRank,                  \* per name, the lifecycle state before the last step
    firstGenerate              \* success and store content of the first Generate call

vars == <<secretConfigGenerator, certificateAuthorities, existingSecrets,
          GardenerResourceDataList, DeployedSecrets, cluster, strictClient,
          pc, secretConfigs, position, deployedSecrets, secretInterface,
          ctx, ns, call, crashed, inputs, prevRank, firstGenerate>>

----------------------------------------------------------------------------
(* Bounds and value sets *)

MaxMaterial == 2

Names == {"ca", "kubeconfig-token"}

Materials == 1..MaxMaterial

Namespaces == {"shoot--ns"}

Nil == "nil"

\* The provider functions an engine is constructed with
Providers == {"byAuthority", "repeat"}

\* SecretConfigGeneratorFunc: the list of configurations the provider
\* returns for the certificate authorities it is given
SecretConfigGeneratorFunc(generator, cas) ==
    IF generator = "repeat" THEN <<"ca", "ca">>
    ELSE IF "ca" \in DOMAIN cas THEN <<"ca", "kubeconfig-token">>
         ELSE <<"ca">>

GenerateFailures == {"synthesis", "encoding", "upsert"}

DeployFailures == {"lookup", "material", "create"}

EmptyMap == [n \in {} |-> Nil]

\* The maps WithCertificateAuthorities is called with
CertificateAuthorityCaches == { EmptyMap, [n \in {"ca"} |-> "cert"] }

ConfigNames(cfgs) == { cfgs[i] : i \in 1..Len(cfgs) }

----------------------------------------------------------------------------
(* Collaborators: credential material, its encoded and runtime forms *)

\* InfoData.Marshal: the encoded form of credential material
Marshal(m) == <<"raw", m>>

\* infodata.Unmarshal: the material a record decodes to
Unmarshal(raw) == raw[2]

\* DataInterface.SecretData: the key-value payload of credential material
SecretData(m) == <<"data", m>>

\* GardenerResourceDataList.Get: the first record under the name; <<>> is nil
Get(list, name) ==
    IF \E i \in 1..Len(list) : list[i].name = name
    THEN << list[CHOOSE i \in 1..Len(list) :
                    /\ list[i].name = name
                    /\ \A j \in 1..(i - 1) : list[j].name # name] >>
    ELSE << >>

\* GardenerResourceDataList.Upsert: overwrite the record under the name, or append
Upsert(list, rec) ==
    IF \E i \in 1..Len(list) : list[i].name = rec.name
    THEN [i \in 1..Len(list) |->
             IF list[i].name = rec.name /\ \A j \in 1..(i - 1) : list[j].name # rec.name
             THEN rec ELSE list[i]]
    ELSE Append(list, rec)

\* infodata.UpsertInfoData: encode the material and upsert it under the name
UpsertInfoData(list, name, data, fail) ==
    IF fail = "encoding" THEN [list |-> list, err |-> "EncodingError"]
    ELSE IF fail = "upsert" THEN [list |-> list, err |-> "PersistenceError"]
    ELSE [list |-> Upsert(list, [name |-> name, data |-> Marshal(data)]),
          err  |-> Nil]

\* infodata.GetInfoData: the decoded record under the name; found = FALSE is nil
GetInfoData(list, name, fail) ==
    IF Get(list, name) = << >> THEN [found |-> FALSE, data |-> 0, err |-> Nil]
    ELSE IF fail = "lookup"
         THEN [found |-> FALSE, data |-> 0, err |-> "RecordLookupError"]
         ELSE [found |-> TRUE, data |-> Unmarshal(Get(list, name)[1].data),
               err |-> Nil]

StoreNames(list) == { list[i].name : i \in 1..Len(list) }

\* client.Client.Create: the storage client accepts or rejects the object
\* (a cancelled context, a failure of its own, or, for a strict client, an
\* object already held under the name)
ClientCreate(objects, strict, secret, fail, cancelled) ==
    IF cancelled THEN [objects |-> objects, err |-> "ContextCanceled"]
    ELSE IF fail = "create" THEN [objects |-> objects, err |-> "PersistenceError"]
    ELSE IF strict /\ secret.name \in objects
         THEN [objects |-> objects, err |-> "AlreadyExists"]
         ELSE [objects |-> objects \cup {secret.name}, err |-> Nil]

----------------------------------------------------------------------------
(* The engine's helpers *)

\* Variant: no check for a record already held under the name
generateInfoDataAndUpdateResourceList_NoSkip(list, name, data, fail) ==
    IF fail = "synthesis"
    THEN [list |-> list, err |-> "SynthesisError", synth |-> TRUE]
    ELSE [list  |-> UpsertInfoData(list, name, data, fail).list,
          err   |-> UpsertInfoData(list, name, data, fail).err,
          synth |-> TRUE]

\* Variant: the material is synthesized before the record check
generateInfoDataAndUpdateResourceList_SynthFirst(list, name, data, fail) ==
    IF fail = "synthesis"
    THEN [list |-> list, err |-> "SynthesisError", synth |-> TRUE]
    ELSE IF Get(list, name) # << >>
         THEN [list |-> list, err |-> Nil, synth |-> TRUE]
         ELSE [list  |-> UpsertInfoData(list, name, data, fail).list,
               err   |-> UpsertInfoData(list, name, data, fail).err,
               synth |-> TRUE]

\* Variant: the list is rebuilt from the new record alone
generateInfoDataAndUpdateResourceList_Rebuild(list, name, data, fail) ==
    IF Get(list, name) # << >>
    THEN [list |-> list, err |-> Nil, synth |-> FALSE]
    ELSE IF fail = "synthesis"
         THEN [list |-> list, err |-> "SynthesisError", synth |-> TRUE]
         ELSE [list  |-> UpsertInfoData(<< >>, name, data, fail).list,
               err   |-> UpsertInfoData(<< >>, name, data, fail).err,
               synth |-> TRUE]

\* Variant: no check for a record, and the new record is appended
generateInfoDataAndUpdateResourceList_Append(list, name, data, fail) ==
    IF fail = "synthesis"
    THEN [list |-> list, err |-> "SynthesisError", synth |-> TRUE]
    ELSE IF fail \in {"encoding", "upsert"}
         THEN [list |-> list, err |-> UpsertInfoData(list, name, data, fail).err,
               synth |-> TRUE]
         ELSE [list |-> Append(list, [name |-> name, data |-> Marshal(data)]),
               err |-> Nil, synth |-> TRUE]

\* generateInfoDataAndUpdateResourceList: skip a name that has a record,
\* otherwise synthesize the material and upsert its encoded form
generateInfoDataAndUpdateResourceList(list, name, data, fail) ==
    IF Get(list, name) # << >>
    THEN [list |-> list, err |-> Nil, synth |-> FALSE]
    ELSE IF fail = "synthesis"
         THEN [list |-> list, err |-> "SynthesisError", synth |-> TRUE]
         ELSE [list  |-> UpsertInfoData(list, name, data, fail).list,
               err   |-> UpsertInfoData(list, name, data, fail).err,
               synth |-> TRUE]

\* Variant: the record is looked up but the material is always synthesized
getInfoDataAndGenerateSecret_AlwaysSynth(list, name, data, fail) ==
    LET info == GetInfoData(list, name, fail) IN
    IF info.err # Nil
    THEN [data |-> 0, err |-> info.err, how |-> "none"]
    ELSE IF fail = "material"
         THEN [data |-> 0, err |-> "SynthesisError", how |-> "synth"]
         ELSE [data |-> data, err |-> Nil, how |-> "synth"]

\* getInfoDataAndGenerateSecret: reconstruct from the record when there is
\* one, synthesize fresh material when there is none
getInfoDataAndGenerateSecret(list, name, data, fail) ==
    LET info == GetInfoData(list, name, fail) IN
    IF info.err # Nil
    THEN [data |-> 0, err |-> info.err, how |-> "none"]
    ELSE IF ~info.found
         THEN IF fail = "material"
              THEN [data |-> 0, err |-> "SynthesisError", how |-> "synth"]
              ELSE [data |-> data, err |-> Nil, how |-> "synth"]
         ELSE IF fail = "material"
              THEN [data |-> 0, err |-> "ReconstructionError", how |-> "reconstruct"]
              ELSE [data |-> info.data, err |-> Nil, how |-> "reconstruct"]

\* Variant: the existing objects are not consulted
deploySecret_NoReuse(existing, objects, strict, namespace, data, name, fail, cancelled) ==
    LET secret == [name |-> name, namespace |-> namespace,
                   type |-> "Opaque", data |-> SecretData(data)]
        res    == ClientCreate(objects, strict, secret, fail, cancelled)
    IN  [secret |-> secret, err |-> res.err, requested |-> TRUE,
         objects |-> res.objects]

\* deploySecret: reuse the existing object under the name, otherwise build
\* an opaque object from the material and ask the client to create it
deploySecret(existing, objects, strict, namespace, data, name, fail, cancelled) ==
    IF name \in DOMAIN existing
    THEN [secret |-> existing[name], err |-> Nil, requested |-> FALSE,
          objects |-> objects]
    ELSE LET secret == [name |-> name, namespace |-> namespace,
                        type |-> "Opaque", data |-> SecretData(data)]
             res    == ClientCreate(objects, strict, secret, fail, cancelled)
         IN  [secret |-> secret, err |-> res.err, requested |-> TRUE,
              objects |-> res.objects]

\* Variant: the loop goes on after an error and returns it at the end
RECURSIVE GenerateConfigs_Continue(_, _, _, _, _, _, _)
GenerateConfigs_Continue(list, cfgs, i, fresh, failAt, fail, synth) ==
    IF i > Len(cfgs)
    THEN [list |-> list, err |-> Nil, synth |-> synth, halt |-> 0]
    ELSE LET r == generateInfoDataAndUpdateResourceList(
                      list, cfgs[i], fresh[i], IF failAt = i THEN fail ELSE "none")
             s == IF r.synth THEN synth \cup {cfgs[i]} ELSE synth
             rest == GenerateConfigs_Continue(r.list, cfgs, i + 1, fresh,
                                              failAt, fail, s)
         IN  IF r.err # Nil
             THEN [rest EXCEPT !.err = r.err, !.halt = i]
             ELSE rest

\* The loop of Generate over the configurations, from position i on
RECURSIVE GenerateConfigs(_, _, _, _, _, _, _)
GenerateConfigs(list, cfgs, i, fresh, failAt, fail, synth) ==
    IF i > Len(cfgs)
    THEN [list |-> list, err |-> Nil, synth |-> synth, halt |-> 0]
    ELSE LET r == generateInfoDataAndUpdateResourceList(
                      list, cfgs[i], fresh[i], IF failAt = i THEN fail ELSE "none")
             s == IF r.synth THEN synth \cup {cfgs[i]} ELSE synth
         IN  IF r.err # Nil
             THEN [list |-> r.list, err |-> r.err, synth |-> s, halt |-> i]
             ELSE GenerateConfigs(r.list, cfgs, i + 1, fresh, failAt, fail, s)

\* secrets.GenerateClusterSecretsWithFunc, a round of its loop up to the
\* call of the client's Create.  At the boundary before the configuration at
\* position i a cancelled context ends the loop; otherwise the round
\* resolves the material of the configuration and either takes the existing
\* object, which ends the round, or requests the creation of a new one and
\* waits for the client (wait).  An error ends the loop.
GenerateClusterSecretsWithFunc(acc, cfgs, i, in) ==
    LET m == getInfoDataAndGenerateSecret(in.list, cfgs[i], in.fresh, in.fail)
        a == [acc EXCEPT
                !.synth = IF m.how = "synth" THEN @ \cup {cfgs[i]} ELSE @,
                !.recon = IF m.how = "reconstruct" THEN @ \cup {cfgs[i]} ELSE @]
        d == deploySecret(in.existing, acc.objects, in.strict, in.namespace,
                          m.data, cfgs[i], "none", FALSE)
    IN  IF in.cancelled THEN [acc EXCEPT !.err = "ContextCanceled", !.halt = i]
        ELSE IF m.err # Nil THEN [a EXCEPT !.err = m.err, !.halt = i]
        ELSE IF d.requested
             THEN [a EXCEPT !.create = @ \cup {cfgs[i]}, !.data = m.data,
                            !.wait = TRUE]
             ELSE [a EXCEPT !.secrets =
                      [n \in DOMAIN @ \cup {cfgs[i]} |->
                          IF n = cfgs[i] THEN d.secret ELSE @[n]]]

\* secrets.GenerateClusterSecretsWithFunc, a round of its loop from the
\* return of the client's Create: the client's error, the context's error
\* included, ends the loop; otherwise the created object is the one resolved
\* for the configuration at position i.
GenerateClusterSecretsWithFuncCreated(acc, cfgs, i, in) ==
    LET d == deploySecret(in.existing, acc.objects, in.strict, in.namespace,
                          in.data, cfgs[i], in.fail, in.cancelled)
        b == [acc EXCEPT
                !.objects = d.objects,
                !.stored = IF d.requested /\ d.err = Nil
                           THEN @ \cup {cfgs[i]} ELSE @]
    IN  IF d.err # Nil THEN [b EXCEPT !.err = d.err, !.halt = i]
        ELSE [b EXCEPT !.secrets =
                 [n \in DOMAIN @ \cup {cfgs[i]} |->
                     IF n = cfgs[i] THEN d.secret ELSE @[n]]]

NoCall == [op |-> "none", err |-> Nil, provider |-> "none",
           synth |-> {}, recon |-> {}, create |-> {}, stored |-> {},
           halt |-> 0, cancel |-> 0]

\* Variant: the provider's error is returned only after the loop has run
GenerateResult_LateError(generator, cfgs, list, providerErr, fresh, failAt, fail) ==
    IF generator = Nil
    THEN [list |-> list, err |-> "panic", provider |-> "none", synth |-> {},
          halt |-> 0]
    ELSE LET r == GenerateConfigs(list, cfgs, 1, fresh, failAt, fail, {})
         IN  IF providerErr
             THEN [list |-> r.list, err |-> "ConfigResolutionError",
                   provider |-> "error", synth |-> r.synth, halt |-> 0]
             ELSE [list |-> r.list, err |-> r.err, provider |-> "ok",
                   synth |-> r.synth, halt |-> r.halt]

\* Variant: the loop returns after the first configuration
GenerateResult_FirstOnly(generator, cfgs, list, providerErr, fresh, failAt, fail) ==
    IF generator = Nil
    THEN [list |-> list, err |-> "panic", provider |-> "none", synth |-> {},
          halt |-> 0]
    ELSE IF providerErr
         THEN [list |-> list, err |-> "ConfigResolutionError",
               provider |-> "error", synth |-> {}, halt |-> 0]
         ELSE LET r == GenerateConfigs(list, SubSeq(cfgs, 1, 1), 1, fresh,
                                       failAt, fail, {})
              IN  [list |-> r.list, err |-> r.err, provider |-> "ok",
                   synth |-> r.synth, halt |-> r.halt]

\* SecretsManager.Generate
GenerateResult(generator, cfgs, list, providerErr, fresh, failAt, fail) ==
    IF generator = Nil
    THEN [list |-> list, err |-> "panic", provider |-> "none", synth |-> {},
          halt |-> 0]
    ELSE IF providerErr
         THEN [list |-> list, err |-> "ConfigResolutionError",
               provider |-> "error", synth |-> {}, halt |-> 0]
         ELSE LET r == GenerateConfigs(list, cfgs, 1, fresh, failAt, fail, {})
              IN  [list |-> r.list, err |-> r.err, provider |-> "ok",
                   synth |-> r.synth, halt |-> r.halt]

\* Variant: the loop's result is not copied into DeployedSecrets
MergeDeployed_Skipped(deployed, secrets) == deployed

\* The merge of the loop's result into DeployedSecrets at the end of Deploy
MergeDeployed(deployed, secrets) ==
    [n \in DOMAIN deployed \cup DOMAIN secrets |->
        IF n \in DOMAIN secrets THEN secrets[n] ELSE deployed[n]]

\* Variant: the provider is called without the nil check
DeployEntry_NoNilCheck(generator, providerErr) ==
    IF generator = Nil
    THEN [pc |-> "idle", err |-> "panic", provider |-> "none"]
    ELSE IF providerErr
         THEN [pc |-> "idle", err |-> "ConfigResolutionError",
               provider |-> "error"]
         ELSE [pc |-> "loop", err |-> Nil, provider |-> "ok"]

\* SecretsManager.Deploy up to the call of the loop: without a provider it
\* returns nil, on the provider's error it returns the error
DeployEntry(generator, providerErr) ==
    IF generator = Nil
    THEN [pc |-> "idle", err |-> Nil, provider |-> "none"]
    ELSE IF providerErr
         THEN [pc |-> "idle", err |-> "ConfigResolutionError",
               provider |-> "error"]
         ELSE [pc |-> "loop", err |-> Nil, provider |-> "ok"]

\* Variant: on an error the objects created during the call are deleted again
DeployResult_Rollback(deployed, objects, r) ==
    [deployed |-> IF r.err # Nil THEN deployed
                  ELSE MergeDeployed(deployed, r.secrets),
     objects  |-> IF r.err # Nil THEN objects \ r.stored ELSE objects]

\* Variant: the loop's partial result is copied into DeployedSecrets on an error
DeployResult_MergeOnError(deployed, objects, r) ==
    [deployed |-> MergeDeployed(deployed, r.secrets), objects |-> objects]

\* SecretsManager.Deploy after the loop has returned: on its error return
\* the error, otherwise copy its objects into DeployedSecrets
DeployResult(deployed, objects, r) ==
    [deployed |-> IF r.err # Nil THEN deployed
                  ELSE MergeDeployed(deployed, r.secrets),
     objects  |-> objects]

----------------------------------------------------------------------------
(* Lifecycle state per credential name *)

Materialized(n, existing, deployed, objects) ==
    n \in DOMAIN existing \/ n \in DOMAIN deployed \/ n \in objects

RankOf(n, list, existing, deployed, objects) ==
    IF Materialized(n, existing, deployed, objects) THEN 2
    ELSE IF Get(list, n) # << >> THEN 1 ELSE 0

Rank(n) == RankOf(n, GardenerResourceDataList, existingSecrets,
                  DeployedSecrets, cluster)

----------------------------------------------------------------------------
(* State machine *)

ExistingSecret(n) ==
    [name |-> n, namespace |-> "shoot--ns", type |-> "Opaque",
     data |-> SecretData(1)]

\* The maps WithExistingSecrets is called with
ExistingCaches ==
    { [n \in S |-> ExistingSecret(n)] : S \in {{}, {"kubeconfig-token"}, {"ca"}} }

InitialStores == { << >>, << [name |-> "ca", data |-> Marshal(1)] >> }

\* NewSecretsManager
Init ==
    /\ secretConfigGenerator \in {Nil} \cup Providers
    /\ certificateAuthorities = EmptyMap
    /\ existingSecrets = EmptyMap
    /\ GardenerResourceDataList \in InitialStores
    /\ DeployedSecrets = EmptyMap
    /\ cluster = {}
    /\ strictClient = FALSE
    /\ pc = "idle"
    /\ secretConfigs = << >>
    /\ position = 0
    /\ deployedSecrets = EmptyMap
    /\ secretInterface = 0
    /\ ctx = "none"
    /\ ns = "none"
    /\ call = NoCall
    /\ crashed = FALSE
    /\ inputs = "initial"
    /\ prevRank = [n \in Names |-> Rank(n)]
    /\ firstGenerate = [called |-> FALSE, ok |-> FALSE, list |-> << >>]

\* A Generate or Deploy call has used the caches
InputsUsed == IF inputs = "initial" THEN "used" ELSE inputs

\* A cache is assigned: after a call has used the caches, a different map
\* replaces what that call has seen
InputsAssigned(old, new) ==
    IF inputs = "used" /\ old # new THEN "replaced" ELSE inputs

\* SecretsManager.WithExistingSecrets
WithExistingSecrets ==
    /\ pc = "idle" /\ ~crashed
    /\ \E m \in ExistingCaches :
         /\ existingSecrets' = m
         /\ inputs' = InputsAssigned(existingSecrets, m)
    /\ call' = [NoCall EXCEPT !.op = "WithExistingSecrets"]
    /\ secretConfigs' = << >>
    /\ prevRank' = [n \in Names |-> Rank(n)]
    /\ UNCHANGED <<secretConfigGenerator, certificateAuthorities,
                   GardenerResourceDataList, DeployedSecrets, cluster,
                   strictClient, pc, position, deployedSecrets,
                   secretInterface, ctx, ns, crashed, firstGenerate>>

\* SecretsManager.WithCertificateAuthorities
WithCertificateAuthorities ==
    /\ pc = "idle" /\ ~crashed
    /\ \E cas \in CertificateAuthorityCaches :
         /\ certificateAuthorities' = cas
         /\ inputs' = InputsAssigned(certificateAuthorities, cas)
    /\ call' = [NoCall EXCEPT !.op = "WithCertificateAuthorities"]
    /\ secretConfigs' = << >>
    /\ prevRank' = [n \in Names |-> Rank(n)]
    /\ UNCHANGED <<secretConfigGenerator, existingSecrets,
                   GardenerResourceDataList, DeployedSecrets, cluster,
                   strictClient, pc, position, deployedSecrets,
                   secretInterface, ctx, ns, crashed, firstGenerate>>

\* What the collaborators do during one Generate call: nothing goes wrong,
\* the provider fails, or one step fails for the configuration at position at
Outcomes(cfgs, kinds) ==
    { [at |-> 0, fail |-> f] : f \in kinds \cap {"none", "provider"} }
        \cup { [at |-> i, fail |-> f] :
                    i \in 1..Len(cfgs), f \in kinds \cap GenerateFailures }

\* The material synthesis returns at each position during one Generate call.
\* Only a position whose name has no record when the call starts ranges over
\* all materials: the others draw one value, which leaves the reachable
\* states the same and the successors fewer.
FreshInputs(list, cfgs) ==
    { f \in [1..Len(cfgs) -> Materials] :
        \A i \in 1..Len(cfgs) : Get(list, cfgs[i]) # << >> => f[i] = 1 }

\* One Generate call whose collaborators behave as one of kinds
GenerateCall(kinds) ==
    /\ pc = "idle" /\ ~crashed
    /\ LET cfgs == IF secretConfigGenerator = Nil THEN << >>
                   ELSE SecretConfigGeneratorFunc(secretConfigGenerator,
                                                  certificateAuthorities)
       IN  \E fresh \in FreshInputs(GardenerResourceDataList, cfgs),
              o \in Outcomes(cfgs, kinds) :
             LET r == GenerateResult(secretConfigGenerator, cfgs,
                                     GardenerResourceDataList,
                                     o.fail = "provider", fresh, o.at, o.fail)
             IN  /\ GardenerResourceDataList' = r.list
                 /\ secretConfigs' = IF r.provider = "ok" THEN cfgs ELSE << >>
                 /\ call' = [NoCall EXCEPT
                                !.op = "Generate", !.err = r.err,
                                !.provider = r.provider, !.synth = r.synth,
                                !.halt = r.halt]
                 /\ crashed' = (r.err = "panic")
                 /\ firstGenerate' =
                        IF firstGenerate.called THEN firstGenerate
                        ELSE [called |-> TRUE, ok |-> r.err = Nil, list |-> r.list]
    /\ inputs' = InputsUsed
    /\ prevRank' = [n \in Names |-> Rank(n)]
    /\ UNCHANGED <<secretConfigGenerator, certificateAuthorities,
                   existingSecrets, DeployedSecrets, cluster, strictClient,
                   pc, position, deployedSecrets, secretInterface, ctx, ns>>

\* SecretsManager.Generate
Generate == GenerateCall({"none", "provider"} \cup GenerateFailures)

\* A Generate call in which no collaborator fails
GenerateUnfailing == GenerateCall({"none"})

\* The material a synthesis returns in one round of Deploy's loop.  Only a
\* name without a record and without an existing object ranges over all
\* materials: for the others the value is not used.
FreshMaterial(list, existing, name) ==
    IF Get(list, name) # << >> \/ name \in DOMAIN existing
    THEN {1} ELSE Materials

\* SecretsManager.Deploy, from the call to the start of the loop
Deploy ==
    /\ pc = "idle" /\ ~crashed
    /\ \E namespace \in Namespaces, providerErr \in BOOLEAN :
         LET e    == DeployEntry(secretConfigGenerator, providerErr)
             cfgs == IF e.provider = "ok"
                     THEN SecretConfigGeneratorFunc(secretConfigGenerator,
                                                    certificateAuthorities)
                     ELSE << >>
         IN  /\ secretConfigs' = cfgs
             /\ pc' = IF e.pc = "loop" /\ Len(cfgs) = 0 THEN "merge" ELSE e.pc
             /\ position' = IF e.pc = "loop" THEN 1 ELSE 0
             /\ ctx' = IF e.pc = "loop" THEN "live" ELSE "none"
             /\ ns' = IF e.pc = "loop" THEN namespace ELSE "none"
             /\ call' = [NoCall EXCEPT !.op = "Deploy", !.err = e.err,
                                       !.provider = e.provider]
             /\ crashed' = (e.err = "panic")
    /\ deployedSecrets' = EmptyMap
    /\ secretInterface' = 0
    /\ inputs' = InputsUsed
    /\ prevRank' = [n \in Names |-> Rank(n)]
    /\ UNCHANGED <<secretConfigGenerator, certificateAuthorities,
                   existingSecrets, GardenerResourceDataList, DeployedSecrets,
                   cluster, strictClient, firstGenerate>>

\* Variant: the loop stores a record for the material it synthesized
DeployLoop_WriteBack ==
    /\ pc = "loop"
    /\ \E fresh \in FreshMaterial(GardenerResourceDataList, existingSecrets,
                                  secretConfigs[position]),
          fail \in {"none"} \cup (DeployFailures \ {"create"}) :
         LET r == GenerateClusterSecretsWithFunc(
                      [secrets |-> deployedSecrets, objects |-> cluster,
                       err |-> Nil, synth |-> call.synth, recon |-> call.recon,
                       create |-> call.create, stored |-> call.stored,
                       halt |-> 0, data |-> 0, wait |-> FALSE],
                      secretConfigs, position,
                      [existing |-> existingSecrets,
                       list |-> GardenerResourceDataList,
                       namespace |-> ns, strict |-> strictClient,
                       fresh |-> fresh, fail |-> fail,
                       cancelled |-> ctx = "cancelled"])
         IN  /\ deployedSecrets' = r.secrets
             /\ secretInterface' = r.data
             /\ call' = [call EXCEPT !.err = r.err, !.synth = r.synth,
                                     !.recon = r.recon, !.create = r.create,
                                     !.halt = r.halt]
             /\ pc' = IF r.err # Nil THEN "merge"
                      ELSE IF r.wait THEN "create"
                      ELSE IF position = Len(secretConfigs) THEN "merge"
                      ELSE "loop"
             /\ position' = IF r.err # Nil \/ r.wait THEN position
                            ELSE position + 1
             /\ GardenerResourceDataList' =
                    IF r.err = Nil /\ secretConfigs[position] \in r.synth
                    THEN Upsert(GardenerResourceDataList,
                                [name |-> secretConfigs[position],
                                 data |-> Marshal(fresh)])
                    ELSE GardenerResourceDataList
    /\ prevRank' = [n \in Names |-> Rank(n)]
    /\ UNCHANGED <<secretConfigGenerator, certificateAuthorities,
                   existingSecrets, DeployedSecrets, cluster, strictClient,
                   secretConfigs, ctx, ns, crashed, inputs, firstGenerate>>

\* Variant: the loop does not look at the caller's context at the boundary
DeployLoop_NoContext ==
    /\ pc = "loop"
    /\ \E fresh \in FreshMaterial(GardenerResourceDataList, existingSecrets,
                                  secretConfigs[position]),
          fail \in {"none"} \cup (DeployFailures \ {"create"}) :
         LET r == GenerateClusterSecretsWithFunc(
                      [secrets |-> deployedSecrets, objects |-> cluster,
                       err |-> Nil, synth |-> call.synth, recon |-> call.recon,
                       create |-> call.create, stored |-> call.stored,
                       halt |-> 0, data |-> 0, wait |-> FALSE],
                      secretConfigs, position,
                      [existing |-> existingSecrets,
                       list |-> GardenerResourceDataList,
                       namespace |-> ns, strict |-> strictClient,
                       fresh |-> fresh, fail |-> fail,
                       cancelled |-> FALSE])
         IN  /\ deployedSecrets' = r.secrets
             /\ secretInterface' = r.data
             /\ call' = [call EXCEPT !.err = r.err, !.synth = r.synth,
                                     !.recon = r.recon, !.create = r.create,
                                     !.halt = r.halt]
             /\ pc' = IF r.err # Nil THEN "merge"
                      ELSE IF r.wait THEN "create"
                      ELSE IF position = Len(secretConfigs) THEN "merge"
                      ELSE "loop"
             /\ position' = IF r.err # Nil \/ r.wait THEN position
                            ELSE position + 1
    /\ prevRank' = [n \in Names |-> Rank(n)]
    /\ UNCHANGED <<secretConfigGenerator, certificateAuthorities,
                   existingSecrets, GardenerResourceDataList,
                   DeployedSecrets, cluster, strictClient,
                   secretConfigs, ctx, ns, crashed, inputs, firstGenerate>>

\* SecretsManager.Deploy, a round of the loop it hands the context and the
\* client to, up to the call of the client's Create: the goroutine blocks in
\* Create, so the call and the return of Create are separate steps
DeployLoop ==
    /\ pc = "loop"
    /\ \E fresh \in FreshMaterial(GardenerResourceDataList, existingSecrets,
                                  secretConfigs[position]),
          fail \in {"none"} \cup (DeployFailures \ {"create"}) :
         LET r == GenerateClusterSecretsWithFunc(
                      [secrets |-> deployedSecrets, objects |-> cluster,
                       err |-> Nil, synth |-> call.synth, recon |-> call.recon,
                       create |-> call.create, stored |-> call.stored,
                       halt |-> 0, data |-> 0, wait |-> FALSE],
                      secretConfigs, position,
                      [existing |-> existingSecrets,
                       list |-> GardenerResourceDataList,
                       namespace |-> ns, strict |-> strictClient,
                       fresh |-> fresh, fail |-> fail,
                       cancelled |-> ctx = "cancelled"])
         IN  /\ deployedSecrets' = r.secrets
             /\ secretInterface' = r.data
             /\ call' = [call EXCEPT !.err = r.err, !.synth = r.synth,
                                     !.recon = r.recon, !.create = r.create,
                                     !.halt = r.halt]
             /\ pc' = IF r.err # Nil THEN "merge"
                      ELSE IF r.wait THEN "create"
                      ELSE IF position = Len(secretConfigs) THEN "merge"
                      ELSE "loop"
             /\ position' = IF r.err # Nil \/ r.wait THEN position
                            ELSE position + 1
    /\ prevRank' = [n \in Names |-> Rank(n)]
    /\ UNCHANGED <<secretConfigGenerator, certificateAuthorities,
                   existingSecrets, GardenerResourceDataList,
                   DeployedSecrets, cluster, strictClient,
                   secretConfigs, ctx, ns, crashed, inputs, firstGenerate>>

\* SecretsManager.Deploy, a round of the loop from the return of the
\* client's Create, which has seen the context as it is now
DeployCreate ==
    /\ pc = "create"
    /\ \E fail \in {"none", "create"} :
         LET r == GenerateClusterSecretsWithFuncCreated(
                      [secrets |-> deployedSecrets, objects |-> cluster,
                       err |-> Nil, stored |-> call.stored, halt |-> 0],
                      secretConfigs, position,
                      [existing |-> existingSecrets,
                       namespace |-> ns, strict |-> strictClient,
                       data |-> secretInterface, fail |-> fail,
                       cancelled |-> ctx = "cancelled"])
         IN  /\ deployedSecrets' = r.secrets
             /\ cluster' = r.objects
             /\ call' = [call EXCEPT !.err = r.err, !.stored = r.stored,
                                     !.halt = r.halt]
             /\ pc' = IF r.err # Nil \/ position = Len(secretConfigs)
                      THEN "merge" ELSE "loop"
             /\ position' = IF r.err # Nil THEN position ELSE position + 1
    /\ secretInterface' = 0
    /\ prevRank' = [n \in Names |-> Rank(n)]
    /\ UNCHANGED <<secretConfigGenerator, certificateAuthorities,
                   existingSecrets, GardenerResourceDataList,
                   DeployedSecrets, strictClient,
                   secretConfigs, ctx, ns, crashed, inputs, firstGenerate>>

\* SecretsManager.Deploy, from the return of the loop to its own return
DeployReturn ==
    /\ pc = "merge"
    /\ LET r == DeployResult(DeployedSecrets, cluster,
                             [err |-> call.err, secrets |-> deployedSecrets,
                              stored |-> call.stored])
       IN  /\ DeployedSecrets' = r.deployed
           /\ cluster' = r.objects
    /\ pc' = "idle"
    /\ position' = 0
    /\ deployedSecrets' = EmptyMap
    /\ secretInterface' = 0
    /\ ctx' = "none"
    /\ ns' = "none"
    /\ prevRank' = [n \in Names |-> Rank(n)]
    /\ UNCHANGED <<secretConfigGenerator, certificateAuthorities,
                   existingSecrets, GardenerResourceDataList, strictClient,
                   secretConfigs, call, crashed, inputs, firstGenerate>>

\* The caller cancels the context it gave to the Deploy call in progress,
\* between two rounds of the loop, while the client's Create waits, or after
\* the loop
CancelContext ==
    /\ pc \in {"loop", "create", "merge"}
    /\ ctx = "live"
    /\ ctx' = "cancelled"
    /\ call' = IF pc \in {"loop", "create"}
               THEN [call EXCEPT !.cancel = position] ELSE call
    /\ prevRank' = [n \in Names |-> Rank(n)]
    /\ UNCHANGED <<secretConfigGenerator, certificateAuthorities,
                   existingSecrets, GardenerResourceDataList, DeployedSecrets,
                   cluster, strictClient, pc, secretConfigs, position,
                   deployedSecrets, secretInterface, ns, crashed, inputs,
                   firstGenerate>>

Next ==
    \/ WithExistingSecrets
    \/ WithCertificateAuthorities
    \/ Generate
    \/ Deploy
    \/ DeployLoop
    \/ DeployCreate
    \/ DeployReturn
    \/ CancelContext

Spec == Init /\ [][Next]_vars

\* The same engine against a storage client that rejects the creation of an
\* object whose name it already holds
InitStrict ==
    /\ secretConfigGenerator \in {Nil} \cup Providers
    /\ certificateAuthorities = EmptyMap
    /\ existingSecrets = EmptyMap
    /\ GardenerResourceDataList \in InitialStores
    /\ DeployedSecrets = EmptyMap
    /\ cluster = {}
    /\ strictClient = TRUE
    /\ pc = "idle"
    /\ secretConfigs = << >>
    /\ position = 0
    /\ deployedSecrets = EmptyMap
    /\ secretInterface = 0
    /\ ctx = "none"
    /\ ns = "none"
    /\ call = NoCall
    /\ crashed = FALSE
    /\ inputs = "initial"
    /\ prevRank = [n \in Names |-> Rank(n)]
    /\ firstGenerate = [called |-> FALSE, ok |-> FALSE, list |-> << >>]

SpecStrict == InitStrict /\ [][Next]_vars

\* The caller keeps re-invoking Generate, with any certificate authorities,
\* and a call in which no collaborator fails is not postponed forever
NextRetry == WithCertificateAuthorities \/ Generate

SpecRetry == Init /\ [][NextRetry]_vars /\ WF_vars(GenerateUnfailing)

----------------------------------------------------------------------------
(* Properties *)

NoDuplicateNames(list) ==
    \A i, j \in 1..Len(list) : list[i].name = list[j].name => i = j

GenerateReturnedOk(c) == c.op = "Generate" /\ c.provider = "ok" /\ c.err = Nil

\* A Deploy call has returned to its caller
DeployReturned(c, p) == c.op = "Deploy" /\ p = "idle"

DeployReturnedOk(c, p) ==
    DeployReturned(c, p) /\ c.provider = "ok" /\ c.err = Nil

\* C1 as stated: after any number of Generate calls, with the caches the
\* first call has seen, the store content equals the content after the first
\* call.
C1_StoreEqualsFirstCall ==
    (firstGenerate.called /\ inputs # "replaced") =>
        GardenerResourceDataList = firstGenerate.list

\* C1, amended: when the first Generate call returned without error, the
\* store content after every later call, with the caches the first call has
\* seen, equals the content after the first call, and no name has two
\* records.
C1_StoreEqualsFirstSuccessfulCall ==
    (firstGenerate.called /\ firstGenerate.ok /\ inputs # "replaced") =>
        /\ GardenerResourceDataList = firstGenerate.list
        /\ NoDuplicateNames(GardenerResourceDataList)

\* A later Generate call that found both records, inserted by an earlier
\* successful first call, and changed nothing
C1_Witness ==
    /\ GenerateReturnedOk(call) /\ call.synth = {}
    /\ firstGenerate.ok /\ inputs # "replaced"
    /\ Len(GardenerResourceDataList) = 2
    /\ GardenerResourceDataList[2].name = "kubeconfig-token"
    /\ GardenerResourceDataList[1].data = Marshal(2)

\* C2: a record the store holds is never replaced or removed by a Generate
\* or Deploy call, and Generate synthesizes nothing for a name that already
\* had a record, whether the call succeeds or fails.
C2_RecordsNeverOverwritten ==
    [][ /\ \A n \in Names :
              Get(GardenerResourceDataList, n) # << >> =>
                  Get(GardenerResourceDataList', n) = Get(GardenerResourceDataList, n)
        /\ call'.op = "Generate" =>
              call'.synth \cap StoreNames(GardenerResourceDataList) = {} ]_vars

\* A Generate call that skipped ca, which had a record, and then failed on
\* kubeconfig-token
C2_Witness ==
    /\ call.op = "Generate" /\ call.err = "SynthesisError"
    /\ call.synth = {"kubeconfig-token"}
    /\ StoreNames(GardenerResourceDataList) = {"ca"}

\* C3: for a name with an existing object, a Deploy call requests no
\* creation and has no object created, the object its loop resolves for the
\* name is the existing one, and when the call has returned without error
\* the Deployed Object Map holds that existing object for every such
\* configuration, with or without a record.
C3_ReusePrecedence ==
    call.op = "Deploy" =>
        \A X \in DOMAIN existingSecrets :
            /\ X \notin call.create
            /\ X \notin call.stored
            /\ X \in DOMAIN deployedSecrets =>
                   deployedSecrets[X] = existingSecrets[X]
            /\ (DeployReturnedOk(call, pc) /\ X \in ConfigNames(secretConfigs)) =>
                   /\ X \in DOMAIN DeployedSecrets
                   /\ DeployedSecrets[X] = existingSecrets[X]

\* A successful Deploy reused the existing kubeconfig-token object although
\* the store has no record for it
C3_Witness ==
    /\ DeployReturnedOk(call, pc)
    /\ "kubeconfig-token" \in DOMAIN existingSecrets
    /\ "kubeconfig-token" \in DOMAIN DeployedSecrets
    /\ DeployedSecrets["kubeconfig-token"] = existingSecrets["kubeconfig-token"]
    /\ Get(GardenerResourceDataList, "kubeconfig-token") = << >>
    /\ call.create = {"ca"}

\* C4: Deploy synthesizes only for names without a record and reconstructs
\* only for names with one; a successful Deploy has reconstructed every
\* configuration whose name has a record.
C4_RecordPrecedence ==
    call.op = "Deploy" =>
        /\ call.synth \cap StoreNames(GardenerResourceDataList) = {}
        /\ call.recon \subseteq StoreNames(GardenerResourceDataList)
        /\ DeployReturnedOk(call, pc) =>
               ConfigNames(secretConfigs) \cap StoreNames(GardenerResourceDataList)
                   \subseteq call.recon

\* A successful Deploy that reconstructed ca from its record and synthesized
\* kubeconfig-token, which has none
C4_Witness ==
    /\ DeployReturnedOk(call, pc)
    /\ call.recon = {"ca"}
    /\ call.synth = {"kubeconfig-token"}

\* C5 as stated: across Deploy calls alone, with the caches the first call
\* has seen, the payload the Deployed Object Map holds for a name never
\* changes.
C5_DeployPayloadStable ==
    [][ (~firstGenerate.called' /\ inputs' # "replaced") =>
            \A n \in DOMAIN DeployedSecrets \cap DOMAIN DeployedSecrets' :
                DeployedSecrets'[n].data = DeployedSecrets[n].data ]_vars

\* C6 as stated: an object the engine created carries the payload
\* reconstructed from the record held under its name (on an engine whose
\* caches are the ones its first call has seen, so that an object of the map
\* that is not an existing object is one the engine created).
C6_RecordObjectConsistent ==
    inputs # "replaced" =>
        \A n \in DOMAIN DeployedSecrets \ DOMAIN existingSecrets :
            Get(GardenerResourceDataList, n) # << >> =>
                DeployedSecrets[n].data =
                    SecretData(Unmarshal(Get(GardenerResourceDataList, n)[1].data))

\* C7: a call in which the provider fails returns ConfigResolutionError,
\* leaves the store, the Deployed Object Map and the client's objects as
\* they were, and resolves and creates nothing.
C7_ProviderErrorNoMutation ==
    [][ call'.provider = "error" =>
            /\ call'.err = "ConfigResolutionError"
            /\ GardenerResourceDataList' = GardenerResourceDataList
            /\ DeployedSecrets' = DeployedSecrets
            /\ cluster' = cluster
            /\ call'.synth = {} /\ call'.recon = {} /\ call'.create = {} ]_vars

\* The provider failed in a Deploy call, after a first Generate call that
\* failed and left the store empty
C7_Witness ==
    /\ call.op = "Deploy" /\ call.provider = "error"
    /\ call.err = "ConfigResolutionError"
    /\ firstGenerate.called /\ ~firstGenerate.ok
    /\ GardenerResourceDataList = << >> /\ cluster = {}

\* C8: after a successful Generate every configuration name has a record,
\* and the store's names are the names before the call plus the
\* configuration names.
C8_GenerateEnsuresRecords ==
    [][ GenerateReturnedOk(call') =>
            /\ ConfigNames(secretConfigs') \subseteq StoreNames(GardenerResourceDataList')
            /\ StoreNames(GardenerResourceDataList') =
                   StoreNames(GardenerResourceDataList) \cup ConfigNames(secretConfigs')
      ]_vars

\* Generate on an empty store with configurations ca, kubeconfig-token
\* inserted exactly the two records
C8_Witness ==
    /\ GenerateReturnedOk(call)
    /\ call.synth = {"ca", "kubeconfig-token"}
    /\ Len(GardenerResourceDataList) = 2
    /\ StoreNames(GardenerResourceDataList) = {"ca", "kubeconfig-token"}

\* C9: after a successful Deploy every configuration has an entry in the
\* Deployed Object Map, and a map that was empty before the call holds
\* exactly the configuration names.
C9_DeployCoversConfigs ==
    [][ DeployReturnedOk(call', pc') =>
            /\ ConfigNames(secretConfigs') \subseteq DOMAIN DeployedSecrets'
            /\ DOMAIN DeployedSecrets = {} =>
                   DOMAIN DeployedSecrets' = ConfigNames(secretConfigs') ]_vars

\* Store with a record for ca only, existing object for kubeconfig-token:
\* Deploy reconstructed ca and reused the existing object
C9_Witness ==
    /\ DeployReturnedOk(call, pc)
    /\ StoreNames(GardenerResourceDataList) = {"ca"}
    /\ DOMAIN existingSecrets = {"kubeconfig-token"}
    /\ DOMAIN DeployedSecrets = {"ca", "kubeconfig-token"}
    /\ "ca" \in call.recon
    /\ DeployedSecrets["ca"].data =
           SecretData(Unmarshal(Get(GardenerResourceDataList, "ca")[1].data))
    /\ DeployedSecrets["kubeconfig-token"] = existingSecrets["kubeconfig-token"]

\* C10: with Unissued = 0, Encoded = 1 and Materialized = 2, no step of a
\* Generate or Deploy call lowers the state of any name.
C10_LifecycleMonotonic ==
    [][ call'.op \in {"Generate", "Deploy"} =>
            \A n \in Names : Rank(n)' >= Rank(n) ]_vars

\* Deploy with no prior Generate took a name from Unissued to Materialized
C10_Witness ==
    /\ call.op = "Deploy" /\ ~firstGenerate.called
    /\ \E n \in Names : prevRank[n] = 0 /\ Rank(n) = 2

\* C11: the store never holds two records under one name, also when the
\* provider's list names a configuration twice.
C11_AtMostOneRecordPerName ==
    NoDuplicateNames(GardenerResourceDataList)

\* A successful Generate over the list ca, ca inserted one record for ca
C11_Witness ==
    /\ GenerateReturnedOk(call)
    /\ secretConfigs = <<"ca", "ca">>
    /\ call.synth = {"ca"}
    /\ Len(GardenerResourceDataList) = 1

\* C12: every step of a Deploy call, successful or failed, leaves the store,
\* the existing objects and the certificate authorities as they were.
C12_DeployLeavesInputs ==
    [][ call'.op = "Deploy" =>
            /\ GardenerResourceDataList' = GardenerResourceDataList
            /\ existingSecrets' = existingSecrets
            /\ certificateAuthorities' = certificateAuthorities ]_vars

\* A successful Deploy synthesized kubeconfig-token and the store still has
\* no record for it
C12_Witness ==
    /\ DeployReturnedOk(call, pc)
    /\ "kubeconfig-token" \in call.synth
    /\ "kubeconfig-token" \in DOMAIN DeployedSecrets
    /\ "kubeconfig-token" \notin StoreNames(GardenerResourceDataList)

\* C13: Deploy on an engine without a provider returns success, does not
\* invoke the provider, requests no creation and changes nothing.
C13_DeployWithoutProviderNoOp ==
    [][ (secretConfigGenerator = Nil /\ call'.op = "Deploy") =>
            /\ call'.err = Nil /\ pc' = "idle" /\ ~crashed'
            /\ call'.provider = "none"
            /\ call'.synth = {} /\ call'.recon = {} /\ call'.create = {}
            /\ GardenerResourceDataList' = GardenerResourceDataList
            /\ DeployedSecrets' = DeployedSecrets
            /\ cluster' = cluster ]_vars

\* Deploy returned on an engine without a provider
C13_Witness ==
    /\ secretConfigGenerator = Nil
    /\ DeployReturned(call, pc) /\ call.err = Nil
    /\ DeployedSecrets = EmptyMap /\ cluster = {}

\* The names of the configurations at positions 1..i
NamesUpTo(cfgs, i) == { cfgs[j] : j \in 1..i }

\* C14: a Generate call that fails at position i returns an error, keeps
\* the records it inserted for the positions before i, and neither inserts
\* a record nor attempts synthesis for any position after i.
C14_GenerateHaltsAtFirstError ==
    [][ (call'.op = "Generate" /\ call'.halt > 0) =>
            /\ call'.err \in {"SynthesisError", "EncodingError", "PersistenceError"}
            /\ NamesUpTo(secretConfigs', call'.halt - 1)
                   \subseteq StoreNames(GardenerResourceDataList')
            /\ SubSeq(GardenerResourceDataList', 1, Len(GardenerResourceDataList))
                   = GardenerResourceDataList
            /\ StoreNames(GardenerResourceDataList')
                       \ StoreNames(GardenerResourceDataList)
                   \subseteq NamesUpTo(secretConfigs', call'.halt - 1)
            /\ call'.synth \subseteq NamesUpTo(secretConfigs', call'.halt)
            /\ secretConfigs'[call'.halt]
                   \notin StoreNames(GardenerResourceDataList') ]_vars

\* A Generate call inserted the record for ca and then failed on
\* kubeconfig-token at position 2
C14_Witness ==
    /\ call.op = "Generate" /\ call.halt = 2 /\ call.err = "EncodingError"
    /\ call.synth = {"ca", "kubeconfig-token"}
    /\ StoreNames(GardenerResourceDataList) = {"ca"}

\* C15: a Deploy call whose loop fails at position i leaves the loop with an
\* error and returns it, resolves and creates nothing for any position after
\* i, and has the objects it created for the positions before i in the
\* storage client; no step of a Deploy call removes an object from the
\* storage client.
C15_DeployHaltsAtFirstError ==
    /\ [] ( (call.op = "Deploy" /\ call.halt > 0) =>
               /\ pc \in {"merge", "idle"}
               /\ call.err \in {"RecordLookupError", "SynthesisError",
                                "ReconstructionError", "PersistenceError",
                                "ContextCanceled", "AlreadyExists"}
               /\ (call.synth \cup call.recon \cup call.create)
                      \subseteq NamesUpTo(secretConfigs, call.halt)
               /\ call.stored \subseteq NamesUpTo(secretConfigs, call.halt - 1)
               /\ \A n \in NamesUpTo(secretConfigs, call.halt - 1) :
                      n \notin DOMAIN existingSecrets =>
                          n \in call.create /\ n \in call.stored /\ n \in cluster )
    /\ [][ call'.op = "Deploy" => cluster \subseteq cluster' ]_vars

\* A Deploy call created the object for ca, failed creating the one for
\* kubeconfig-token at position 2 and returned
C15_Witness ==
    /\ DeployReturned(call, pc)
    /\ call.halt = 2 /\ call.err = "PersistenceError"
    /\ call.create = {"ca", "kubeconfig-token"}
    /\ cluster = {"ca"}
    /\ DeployedSecrets = EmptyMap

\* C16 as stated: after Deploy calls that failed partway, leaving created
\* objects behind and the Deployed Object Map empty, a retry is never
\* rejected at its first configuration because of an object those calls
\* created (provider lists without a repeated name, caches as the first
\* call has seen them).
C16_RetryNotRejected ==
    (call.op = "Deploy" /\ DeployedSecrets = EmptyMap /\ cluster # {}
        /\ call.halt = 1 /\ inputs # "replaced"
        /\ Cardinality(ConfigNames(secretConfigs)) = Len(secretConfigs)) =>
        call.err # "AlreadyExists"

\* C17: on an engine with a provider, when a Generate call in which no
\* collaborator fails is not postponed forever, eventually a Generate call
\* returns without error with a record held for every configuration; and
\* no call lowers the number of names that have a record.
C17_GenerateRetryCompletes ==
    /\ (secretConfigGenerator # Nil) =>
           <>( /\ GenerateReturnedOk(call)
               /\ ConfigNames(secretConfigs)
                      \subseteq StoreNames(GardenerResourceDataList) )
    /\ [][ Cardinality(StoreNames(GardenerResourceDataList'))
               >= Cardinality(StoreNames(GardenerResourceDataList)) ]_vars

\* A Generate call completed the store after the first call had failed
\* partway
C17_Witness ==
    /\ GenerateReturnedOk(call)
    /\ firstGenerate.called /\ ~firstGenerate.ok
    /\ firstGenerate.list # GardenerResourceDataList
    /\ ConfigNames(secretConfigs) \subseteq StoreNames(GardenerResourceDataList)

\* C18: when the context is cancelled while Deploy's loop is at the
\* configuration at position i, before its round or while the client's
\* Create waits for it, the loop resolves and creates nothing for any
\* position after i and leaves with an error, Deploy returns that error, and
\* the objects the call created are still in the storage client.
C18_CancelAbortsAtBoundary ==
    (call.op = "Deploy" /\ call.cancel > 0) =>
        /\ (call.synth \cup call.recon \cup call.create)
               \subseteq NamesUpTo(secretConfigs, call.cancel)
        /\ call.stored \subseteq NamesUpTo(secretConfigs, call.cancel - 1)
        /\ call.stored \subseteq cluster
        /\ pc \in {"merge", "idle"} =>
               call.err = "ContextCanceled" /\ call.halt = call.cancel

\* The context was cancelled while the client's Create waited for
\* kubeconfig-token, after Deploy had created the object for ca: Create and
\* Deploy returned the context's error, and ca is still in the storage client
C18_Witness ==
    /\ DeployReturned(call, pc)
    /\ secretConfigs = <<"ca", "kubeconfig-token">>
    /\ call.cancel = 2 /\ call.halt = 2 /\ call.err = "ContextCanceled"
    /\ call.synth = {"ca", "kubeconfig-token"} /\ call.recon = {}
    /\ call.create = {"ca", "kubeconfig-token"}
    /\ call.stored = {"ca"} /\ cluster = {"ca"}
    /\ DeployedSecrets = EmptyMap

\* C19: no step removes a name from the Deployed Object Map; Generate and
\* a Deploy call that ends in an error leave the map as it was, also when
\* the failed call created objects; a successful Deploy changes only entries
\* under the names of its configurations.
C19_DeployedSecretsAccumulates ==
    [][ /\ DOMAIN DeployedSecrets \subseteq DOMAIN DeployedSecrets'
        /\ call'.op = "Generate" => DeployedSecrets' = DeployedSecrets
        /\ (call'.op = "Deploy" /\ call'.err # Nil) =>
               DeployedSecrets' = DeployedSecrets
        /\ DOMAIN DeployedSecrets' \subseteq
               DOMAIN DeployedSecrets \cup ConfigNames(secretConfigs')
        /\ \A n \in DOMAIN DeployedSecrets \ ConfigNames(secretConfigs') :
               DeployedSecrets'[n] = DeployedSecrets[n] ]_vars

\* A Deploy call failed after creating the object for ca, returned and left
\* the map, filled by an earlier successful call, as it was
C19_Witness ==
    /\ DeployReturned(call, pc) /\ call.err # Nil /\ call.halt = 2
    /\ "ca" \in call.stored
    /\ DOMAIN DeployedSecrets = {"ca", "kubeconfig-token"}

\* C20 as stated: Generate returns an outcome, success or an error value,
\* on every engine the constructor allows; it never crashes.
C20_GenerateReturns ==
    call.op = "Generate" => (call.err # "panic" /\ ~crashed)

====
